---- MODULE Spec2Model ----
(***************************************************************************)
(* Model of the cops-and-robber tic-tac-toe referee, src/current/game.py.  *)
(* The Game object owns a labelled graph (9 cell nodes and 7 line nodes),  *)
(* a latched (result, status) pair, a round counter and two engine slots.  *)
(* One action, next_round, models one call of Game.next_round() with the   *)
(* outcome of the engine call drawn from a small set.                      *)
(***************************************************************************)
EXTENDS Integers, FiniteSets, Sequences, TLC

VARIABLES graph, result, round, status, cops, robber,
          raised, invoked, stepped, lastCall, factoryCalls, extra

vars == <<graph, result, round, status, cops, robber,
          raised, invoked, stepped, lastCall, factoryCalls, extra>>

----------------------------------------------------------------------------
(* Bounds of the model.                                                    *)

\* next_round() is called while round < MaxRound (round 8 is the ninth ply).
MaxRound == 8
\* On a game that a ply decided, the caller makes at most MaxExtra further
\* calls of next_round(); a game whose construction failed is called like a
\* continuing one.
MaxExtra == 1

----------------------------------------------------------------------------
(* The tic-tac-toe graph, Game.__init_tictactoe_graph.                     *)

Cell(i, j) == <<"cell", i, j>>
Row(i) == <<"row", i, 0>>
Col(j) == <<"col", j, 0>>
Dia(k) == <<"dia", k, 0>>

Cells == {Cell(i, j) : i \in 0..2, j \in 0..2}
Lines == {Row(i) : i \in 0..2} \cup {Col(j) : j \in 0..2} \cup {Dia(k) : k \in 0..1}
Nodes == Cells \cup Lines

\* The second diagonal is wired for rows 0 and 1 only.
EdgesShortDiagonal ==
    {{Cell(i, j), Row(i)} : i \in 0..2, j \in 0..2}
      \cup {{Cell(i, j), Col(j)} : i \in 0..2, j \in 0..2}
      \cup {{Cell(i, i), Dia(0)} : i \in 0..2}
      \cup {{Cell(i, 2 - i), Dia(1)} : i \in 0..1}

Edges ==
    {{Cell(i, j), Row(i)} : i \in 0..2, j \in 0..2}
      \cup {{Cell(i, j), Col(j)} : i \in 0..2, j \in 0..2}
      \cup {{Cell(i, i), Dia(0)} : i \in 0..2}
      \cup {{Cell(i, 2 - i), Dia(1)} : i \in 0..2}

\* graph.adj, computed once from the edges.
AdjOf == [v \in Nodes |-> {w \in Nodes : {v, w} \in Edges}]

Adj(v) == AdjOf[v]

EmptyGraph == [v \in Nodes |-> " "]

----------------------------------------------------------------------------
(* Outcomes of an engine call: an error, an absent move, or a pair.        *)

Raise == [kind |-> "raise", row |-> 0, col |-> 0]
NoneMove == [kind |-> "None", row |-> 0, col |-> 0]
Move(r, c) == [kind |-> "move", row |-> r, col |-> c]
NoCall == [kind |-> "nocall", row |-> 0, col |-> 0]

\* Pairs outside the board: too large, and negative.
OutOfRange == {Move(5, 5), Move(-1, 1)}

CallOutcomes ==
    {Raise, NoneMove} \cup {Move(r, c) : r \in 0..2, c \in 0..2} \cup OutOfRange

----------------------------------------------------------------------------
(* The latched outcome, lines 258-271.  g is the part of the Game object   *)
(* a handler works on: [graph, result, status, raised].                    *)

\* The result is written without the guard on a continuing game.
robber_win_unguarded(g) == [g EXCEPT !.result = -1]

robber_win(g) == IF g.result = 0 THEN [g EXCEPT !.result = -1] ELSE g

cops_win(g) == IF g.result = 0 THEN [g EXCEPT !.result = 1] ELSE g

\* Status written without the 'Game continues' guard.
set_status_unguarded(g, s) == [g EXCEPT !.status = s]

set_status(g, s) ==
    IF g.status = "Game continues" THEN [g EXCEPT !.status = s] ELSE g

(* The outcome-setting operations, lines 219-256.                          *)

cops_three_in_a_row(g) == set_status(cops_win(g), "Robber caught")

\* A tie credited to the cops.
tie_for_cops(g) == set_status(cops_win(g), "Cops shift ends")

tie(g) == set_status(robber_win(g), "Cops shift ends")

\* Three R in a row credited to the cops.
robber_three_in_a_row_for_cops(g) == set_status(cops_win(g), "Robber escapes")

robber_three_in_a_row(g) == set_status(robber_win(g), "Robber escapes")

\* The status string of the docstring, with its full stop.
cops_invalid_step_dot(g) == set_status(robber_win(g), "Cops invalid step.")

cops_invalid_step(g) == set_status(robber_win(g), "Cops invalid step")

robber_invalid_step(g) == set_status(cops_win(g), "Robber invalid step")

cops_exception(g) == set_status(robber_win(g), "Exception in cops call")

robber_exception(g) == set_status(cops_win(g), "Exception in robber call")

----------------------------------------------------------------------------
(* Win and tie detection, lines 193-217.                                   *)

\* Only the row nodes are scanned.
three_in_a_row_rows_only(lbl, gr) ==
    \E v \in {Row(i) : i \in 0..2} : \A w \in Adj(v) : gr[w] = lbl

\* One neighbour with the label is enough (win starts False, set on a match).
three_in_a_row_any_neighbour(lbl, gr) ==
    \E v \in Nodes : \E w \in Adj(v) : gr[w] = lbl

three_in_a_row(lbl, gr) == \E v \in Nodes : \A w \in Adj(v) : gr[w] = lbl

\* The scan returns after the first row.
game_tied_first_row(gr) == \A j \in 0..2 : gr[Cell(0, j)] # " "

\* The scan never reports a full board.
game_tied_never(gr) == FALSE

game_tied(gr) == \A i \in 0..2 : \A j \in 0..2 : gr[Cell(i, j)] # " "

----------------------------------------------------------------------------
(* Move validation, lines 159-191.  The range tests short-circuit before   *)
(* the node lookup; a lookup of a node the graph lacks raises KeyError.    *)

\* The label is looked up before the range tests.
set_cop_positions_lookup_first(g, move) ==
    IF move.kind = "None" THEN cops_invalid_step(g)
    ELSE IF Cell(move.row, move.col) \notin Nodes THEN [g EXCEPT !.raised = TRUE]
    ELSE IF g.graph[Cell(move.row, move.col)] # " " THEN cops_invalid_step(g)
    ELSE [g EXCEPT !.graph[Cell(move.row, move.col)] = "C"]

\* The test for an already labelled cell is missing.
set_cop_positions_overwrite(g, move) ==
    IF move.kind = "None" THEN cops_invalid_step(g)
    ELSE IF move.row < 0 \/ move.col < 0 \/ move.row > 2 \/ move.col > 2
         THEN cops_invalid_step(g)
    ELSE [g EXCEPT !.graph[Cell(move.row, move.col)] = "C"]

set_cop_positions(g, move) ==
    IF move.kind = "None" THEN cops_invalid_step(g)
    ELSE IF move.row < 0 \/ move.col < 0 \/ move.row > 2 \/ move.col > 2
         THEN cops_invalid_step(g)
    ELSE IF Cell(move.row, move.col) \notin Nodes THEN [g EXCEPT !.raised = TRUE]
    ELSE IF g.graph[Cell(move.row, move.col)] # " " THEN cops_invalid_step(g)
    ELSE [g EXCEPT !.graph[Cell(move.row, move.col)] = "C"]

\* The test for an already labelled cell is missing.
set_robber_position_overwrite(g, move) ==
    IF move.kind = "None" THEN robber_invalid_step(g)
    ELSE IF move.row < 0 \/ move.col < 0 \/ move.row > 2 \/ move.col > 2
         THEN robber_invalid_step(g)
    ELSE [g EXCEPT !.graph[Cell(move.row, move.col)] = "R"]

\* The robber's cell is labelled with the cops' mark.
set_robber_position_cops_mark(g, move) ==
    IF move.kind = "None" THEN robber_invalid_step(g)
    ELSE IF move.row < 0 \/ move.col < 0 \/ move.row > 2 \/ move.col > 2
         THEN robber_invalid_step(g)
    ELSE IF Cell(move.row, move.col) \notin Nodes THEN [g EXCEPT !.raised = TRUE]
    ELSE IF g.graph[Cell(move.row, move.col)] # " " THEN robber_invalid_step(g)
    ELSE [g EXCEPT !.graph[Cell(move.row, move.col)] = "C"]

set_robber_position(g, move) ==
    IF move.kind = "None" THEN robber_invalid_step(g)
    ELSE IF move.row < 0 \/ move.col < 0 \/ move.row > 2 \/ move.col > 2
         THEN robber_invalid_step(g)
    ELSE IF Cell(move.row, move.col) \notin Nodes THEN [g EXCEPT !.raised = TRUE]
    ELSE IF g.graph[Cell(move.row, move.col)] # " " THEN robber_invalid_step(g)
    ELSE [g EXCEPT !.graph[Cell(move.row, move.col)] = "R"]

----------------------------------------------------------------------------
(* The two step handlers, lines 105-137.  slot is the engine attribute:    *)
(* "engine" (constructed), "None" (set to None) or "unset" (the attribute  *)
(* was never assigned).  Calling step through a slot that holds no engine  *)
(* raises AttributeError inside the try block, which except Exception      *)
(* catches like an error raised by the engine itself.                      *)

CallOf(slot, e) == IF slot = "engine" THEN e ELSE Raise

\* Lines 134-135 and 118-119: the win checks after the move is applied.
\* A handler that has raised runs no further statement.
check_cops_row(g) ==
    IF g.raised THEN g
    ELSE IF three_in_a_row("C", g.graph) THEN cops_three_in_a_row(g)
    ELSE g

\* The robber's three-in-a-row test is missing.
check_robber_row_skipped(g) == g

check_robber_row(g) ==
    IF g.raised THEN g
    ELSE IF three_in_a_row("R", g.graph) THEN robber_three_in_a_row(g)
    ELSE g

\* Lines 136-137.
check_tie(g) ==
    IF g.raised THEN g
    ELSE IF game_tied(g.graph) THEN tie(g)
    ELSE g

\* The engine call is made outside the try block.
cops_step_uncaught(g, slot, e) ==
    IF CallOf(slot, e).kind = "raise" THEN [g EXCEPT !.raised = TRUE]
    ELSE check_tie(check_cops_row(set_cop_positions(g, CallOf(slot, e))))

\* The move is validated before the exception is recorded.
cops_step_validate_first(g, slot, e) ==
    IF CallOf(slot, e).kind = "raise"
    THEN check_tie(check_cops_row(cops_exception(set_cop_positions(g, NoneMove))))
    ELSE check_tie(check_cops_row(set_cop_positions(g, CallOf(slot, e))))

\* The tie check runs before the three-in-a-row check.
cops_step_tie_first(g, slot, e) ==
    IF CallOf(slot, e).kind = "raise"
    THEN check_cops_row(check_tie(set_cop_positions(cops_exception(g), NoneMove)))
    ELSE check_cops_row(check_tie(set_cop_positions(g, CallOf(slot, e))))

cops_step(g, slot, e) ==
    IF CallOf(slot, e).kind = "raise"
    THEN check_tie(check_cops_row(set_cop_positions(cops_exception(g), NoneMove)))
    ELSE check_tie(check_cops_row(set_cop_positions(g, CallOf(slot, e))))

robber_step(g, slot, e) ==
    IF CallOf(slot, e).kind = "raise"
    THEN check_robber_row(set_robber_position(robber_exception(g), NoneMove))
    ELSE check_robber_row(set_robber_position(g, CallOf(slot, e)))

----------------------------------------------------------------------------
(* Construction, lines 9-35 and 64-92.  cf, rf: the factory raises.        *)

NewFields ==
    [graph |-> EmptyGraph, result |-> 0, status |-> "Game continues",
     raised |-> FALSE]

\* __init_cops: the fields, the cops slot and whether RuntimeError is raised.
init_cops(g, cf) ==
    IF cf THEN [g |-> cops_exception(g), slot |-> "None", error |-> TRUE]
    ELSE [g |-> g, slot |-> "engine", error |-> FALSE]

init_robber(g, rf) ==
    IF rf THEN [g |-> robber_exception(g), slot |-> "None", error |-> TRUE]
    ELSE [g |-> g, slot |-> "engine", error |-> FALSE]

\* The RuntimeError of __init_cops is swallowed without returning.
Game_init_no_return(cf, rf) ==
    LET c == init_cops(NewFields, cf)
        r == init_robber(c.g, rf)
    IN  [g |-> r.g, cops |-> c.slot, robber |-> r.slot,
         factoryCalls |-> {"cops", "robber"}]

Game_init(cf, rf) ==
    LET c == init_cops(NewFields, cf)
        r == init_robber(c.g, rf)
    IN  IF c.error
        THEN [g |-> c.g, cops |-> c.slot, robber |-> "unset",
              factoryCalls |-> {"cops"}]
        ELSE [g |-> r.g, cops |-> c.slot, robber |-> r.slot,
              factoryCalls |-> {"cops", "robber"}]

Init ==
    \E cf \in BOOLEAN, rf \in BOOLEAN :
        LET n == Game_init(cf, rf)
        IN  /\ graph = n.g.graph
            /\ result = n.g.result
            /\ status = n.g.status
            /\ raised = n.g.raised
            /\ round = -1
            /\ cops = n.cops
            /\ robber = n.robber
            /\ factoryCalls = n.factoryCalls
            /\ invoked = {}
            /\ stepped = "none"
            /\ lastCall = NoCall
            /\ extra = 0

----------------------------------------------------------------------------
(* Game.next_round, lines 94-103.                                          *)

Fields == [graph |-> graph, result |-> result, status |-> status, raised |-> raised]

\* The parity test is inverted.
CopsTurnOdd(r) == r % 2 = 1

CopsTurn(r) == r % 2 = 0

next_round(e) ==
    /\ extra' = IF result = 0 THEN extra ELSE extra + 1
    /\ round' = round + 1
    /\ LET copsTurn == CopsTurn(round')
           slot == IF copsTurn THEN cops ELSE robber
       IN  \E g \in {IF copsTurn THEN cops_step(Fields, cops, e)
                                 ELSE robber_step(Fields, robber, e)} :
           /\ graph' = g.graph
           /\ result' = g.result
           /\ status' = g.status
           /\ raised' = g.raised
           /\ stepped' = IF copsTurn THEN "cops" ELSE "robber"
           /\ invoked' = IF slot = "engine"
                         THEN {IF copsTurn THEN "cops" ELSE "robber"}
                         ELSE {}
           /\ lastCall' = CallOf(slot, e)
    /\ UNCHANGED <<cops, robber, factoryCalls>>

\* The caller: the driver loop of main.py calls next_round() while the game
\* continues; a caller may also go on calling a decided game.
Next ==
    /\ round < MaxRound
    /\ result = 0 \/ extra < MaxExtra \/ cops # "engine" \/ robber # "engine"
    /\ \E e \in CallOutcomes : next_round(e)

Spec == Init /\ [][Next]_vars

\* The driver loop of main.py, lines 16-22: next_round() is called while
\* result() is 0, and the loop keeps running as long as engine calls return.
DriverNext == result = 0 /\ \E e \in CallOutcomes : next_round(e)

DriverSpec == Init /\ [][DriverNext]_vars /\ WF_vars(DriverNext)

----------------------------------------------------------------------------
(* Vocabulary of the properties.                                           *)

NumLabelled(lbl) == Cardinality({c \in Cells : graph[c] = lbl})

\* Every ply so far labelled a cell: all moves were valid placements, by
\* two engines that exist (only a constructed robber engine can fill the
\* board with the cops).
AllPliesValid ==
    /\ cops = "engine" /\ robber = "engine"
    /\ NumLabelled("C") + NumLabelled("R") = round + 1

InRange(c) == c.kind = "move" /\ c.row \in 0..2 /\ c.col \in 0..2

CellOf(c) == Cell(c.row, c.col)

DiagonalIsCops ==
    graph[Cell(0, 0)] = "C" /\ graph[Cell(1, 1)] = "C" /\ graph[Cell(2, 2)] = "C"

SideOf(r) == IF r % 2 = 0 THEN "cops" ELSE "robber"

Statuses ==
    {"Game continues", "Cops invalid step", "Robber invalid step",
     "Exception in cops call", "Exception in robber call",
     "Robber caught", "Robber escapes", "Cops shift ends"}

----------------------------------------------------------------------------
\* C1: once result is non-zero, no further next_round() call changes result
\* or status, whatever the engine does in that call.
ResultStatusLatch ==
    [][result # 0 => (result' = result /\ status' = status)]_vars

\* A game the cops won on which the caller went on and the robber engine
\* then returned no move.
ResultStatusLatchWitness ==
    /\ result = 1 /\ status = "Robber caught"
    /\ extra >= 1 /\ stepped = "robber" /\ lastCall = NoneMove

\* C2: when every ply so far was a valid placement and no node has a
\* monochromatic neighbour set, the game continues through the first eight
\* plies and ends (-1, 'Cops shift ends') at the ninth.
TieAfterNineValidPlies ==
    (/\ round >= 0
     /\ AllPliesValid
     /\ ~three_in_a_row("C", graph)
     /\ ~three_in_a_row("R", graph))
    => IF round < 8
       THEN result = 0 /\ status = "Game continues"
       ELSE result = -1 /\ status = "Cops shift ends"

TieAfterNineValidPliesWitness ==
    /\ round = 8 /\ AllPliesValid
    /\ ~three_in_a_row("C", graph) /\ ~three_in_a_row("R", graph)
    /\ result = -1 /\ status = "Cops shift ends"

\* C3 as stated: after the fifth call, with the cops on (0,0), (1,1), (2,2),
\* the outcome is (1, 'Robber caught').
DiagonalCaught ==
    (round = 4 /\ DiagonalIsCops) => (result = 1 /\ status = "Robber caught")

\* C3 amended: after the fifth call, with the cops on (0,0), (1,1), (2,2),
\* the result is 1; the status is 'Robber caught' when both robber plies were
\* valid placements and the robber's forfeit reason otherwise.
DiagonalCopsWin ==
    (round = 4 /\ DiagonalIsCops)
    => /\ result = 1
       /\ NumLabelled("R") = 2 => status = "Robber caught"
       /\ NumLabelled("R") < 2 =>
            status \in {"Robber invalid step", "Exception in robber call"}

DiagonalCopsWinWitness ==
    /\ round = 4 /\ DiagonalIsCops /\ NumLabelled("R") = 2
    /\ result = 1 /\ status = "Robber caught"

\* C4 as stated: when the cops engine returns (5,5) on the first ply, the
\* outcome right after that call is (-1, 'Cops invalid step').
ProbeFirstPly ==
    (round = 0 /\ lastCall = Move(5, 5))
    => (result = -1 /\ status = "Cops invalid step")

\* C4 amended: when both engines were constructed and the cops engine
\* returns (5,5) on the first ply, the outcome right after that call is
\* (-1, 'Cops invalid step').
ProbeFirstPlyOfLiveGame ==
    (round = 0 /\ lastCall = Move(5, 5) /\ robber = "engine")
    => (result = -1 /\ status = "Cops invalid step")

ProbeFirstPlyOfLiveGameWitness ==
    /\ round = 0 /\ lastCall = Move(5, 5) /\ robber = "engine"
    /\ result = -1 /\ status = "Cops invalid step" /\ ~raised

\* C5: when the cops factory raised, the outcome is
\* (-1, 'Exception in cops call') and the robber factory was never invoked.
CopsFactoryFailure ==
    cops = "None"
    => /\ result = -1
       /\ status = "Exception in cops call"
       /\ "robber" \notin factoryCalls
       /\ robber = "unset"

CopsFactoryFailureWitness ==
    /\ round = -1 /\ cops = "None" /\ factoryCalls = {"cops"}
    /\ status = "Exception in cops call"

\* C6 as stated: a robber ply that returns a cell the cops labelled ends
\* with (1, 'Robber invalid step').
RobberOnCopsCell ==
    [][(/\ round' = round + 1
        /\ stepped' = "robber"
        /\ InRange(lastCall')
        /\ graph[CellOf(lastCall')] = "C")
       => (result' = 1 /\ status' = "Robber invalid step")]_vars

\* C6 amended: a robber ply of a continuing game that returns a cell the
\* cops labelled ends with (1, 'Robber invalid step').
RobberOnCopsCellOfLiveGame ==
    [][(/\ round' = round + 1
        /\ result = 0
        /\ stepped' = "robber"
        /\ InRange(lastCall')
        /\ graph[CellOf(lastCall')] = "C")
       => (result' = 1 /\ status' = "Robber invalid step")]_vars

\* The robber has just forfeited a continuing game on a cell of the cops.
RobberOnCopsCellOfLiveGameWitness ==
    /\ stepped = "robber" /\ extra = 0 /\ robber = "engine"
    /\ InRange(lastCall) /\ graph[CellOf(lastCall)] = "C"
    /\ result = 1 /\ status = "Robber invalid step"

\* C7 as stated: the round counter starts at -1 and grows by one per call,
\* and the call that makes it even invokes exactly the cops engine, the call
\* that makes it odd exactly the robber engine.
RoundParity ==
    /\ round = -1
    /\ [][/\ round' = round + 1
          /\ invoked' = {SideOf(round')}]_vars

\* C7 amended: the round counter starts at -1 and grows by one per call; the
\* call that makes it even runs the cops step and the call that makes it odd
\* the robber step; the engine invoked is that side's engine when it was
\* constructed and no engine otherwise, never the other side's.
RoundParityOfSides ==
    /\ round = -1
    /\ [][/\ round' = round + 1
          /\ stepped' = SideOf(round')
          /\ invoked' \subseteq {SideOf(round')}
          /\ (IF SideOf(round') = "cops" THEN cops ELSE robber) = "engine"
               <=> invoked' = {SideOf(round')}]_vars

\* A robber ply on a decided game, and a cops ply without a cops engine.
RoundParityOfSidesWitness ==
    \/ round >= 3 /\ extra >= 1 /\ invoked = {"robber"} /\ result = 1
    \/ round = 0 /\ cops = "None" /\ invoked = {} /\ stepped = "cops"

FailedCall(c) ==
    \/ c.kind \in {"raise", "None"}
    \/ c.kind = "move" /\ ~InRange(c)
    \/ InRange(c) /\ graph[CellOf(c)] # " "

NoErrorEscapes ==
    /\ [](raised = FALSE)
    /\ [](cops = "None" => result = -1)
    /\ [](robber = "None" => result = 1)
    /\ [][(round' = round + 1 /\ result = 0 /\ FailedCall(lastCall'))
          => /\ result' = (IF stepped' = "cops" THEN -1 ELSE 1)
             /\ status' \in
                  (IF stepped' = "cops"
                   THEN {"Cops invalid step", "Exception in cops call"}
                   ELSE {"Robber invalid step", "Exception in robber call"})
             /\ graph' = graph]_vars

\* The robber step was run on a game whose robber slot was never assigned,
\* and nothing was raised to the caller.
NoErrorEscapesWitness ==
    /\ robber = "unset" /\ stepped = "robber" /\ lastCall = Raise
    /\ raised = FALSE /\ result = -1

\* C10: a labelled cell keeps its label in every later call.
NoOverwrite ==
    [][\A c \in Cells : graph[c] # " " => graph'[c] = graph[c]]_vars

\* On a decided game the cops engine returned a cell of the robber.
NoOverwriteWitness ==
    /\ extra >= 1 /\ stepped = "cops" /\ InRange(lastCall)
    /\ graph[CellOf(lastCall)] = "R"

----------------------------------------------------------------------------
(* The eight classic lines of the 3x3 board, as sets of cells.            *)

ClassicLines ==
    {{Cell(i, j) : j \in 0..2} : i \in 0..2}
      \cup {{Cell(i, j) : i \in 0..2} : j \in 0..2}
      \cup {{Cell(i, i) : i \in 0..2}, {Cell(i, 2 - i) : i \in 0..2}}

HasLine(lbl, gr) == \E l \in ClassicLines : \A c \in l : gr[c] = lbl

BoardFull(gr) == \A c \in Cells : gr[c] # " "

\* The call just made returned an in-range pair on a cell that was empty.
ValidCall(c) == InRange(c) /\ graph[CellOf(c)] = " "

\* C11: in a continuing game, a ply whose engine raises from step() ends
\* with the other side winning and the status 'Exception in cops call'
\* (cops ply) or 'Exception in robber call' (robber ply); the validation of
\* the absent move does not replace it with an invalid-step status.
StepErrorKeepsExceptionStatus ==
    [][(round' = round + 1 /\ result = 0 /\ lastCall' = Raise)
       => IF stepped' = "cops"
          THEN result' = -1 /\ status' = "Exception in cops call"
          ELSE result' = 1 /\ status' = "Exception in robber call"]_vars

\* The cops engine has just raised in a game that was continuing.
StepErrorKeepsExceptionStatusWitness ==
    /\ cops = "engine" /\ robber = "engine" /\ extra = 0
    /\ stepped = "cops" /\ lastCall = Raise
    /\ result = -1 /\ status = "Exception in cops call"

\* C12: in a continuing game, a valid cops move that fills the last empty
\* cell and completes a line of three 'C' ends the game with
\* (1, 'Robber caught'), not (-1, 'Cops shift ends').
CopsWinBeforeTie ==
    [][(/\ round' = round + 1
        /\ result = 0
        /\ stepped' = "cops"
        /\ ValidCall(lastCall')
        /\ BoardFull(graph')
        /\ HasLine("C", graph'))
       => (result' = 1 /\ status' = "Robber caught")]_vars

\* The ninth ply completed a line of the cops on a full board.
CopsWinBeforeTieWitness ==
    /\ round = 8 /\ AllPliesValid /\ BoardFull(graph) /\ HasLine("C", graph)
    /\ result = 1 /\ status = "Robber caught"

\* C13: a call whose engine raises or returns an absent, out-of-range or
\* already labelled move leaves all 16 node labels unchanged; a call whose
\* engine returns a valid move changes exactly that cell from empty to the
\* mark of the side of the round ('C' on even rounds, 'R' on odd rounds).
PlyFrame ==
    [][round' = round + 1
       => /\ FailedCall(lastCall') => graph' = graph
          /\ ValidCall(lastCall') =>
               graph' = [graph EXCEPT ![CellOf(lastCall')] =
                                        IF round' % 2 = 0 THEN "C" ELSE "R"]]_vars

\* The robber has just placed its first mark next to the cops' first mark.
PlyFrameWitness ==
    /\ round = 1 /\ lastCall = Move(1, 1) /\ graph[Cell(1, 1)] = "R"
    /\ NumLabelled("R") = 1 /\ NumLabelled("C") = 1

\* C14: for the labels 'C' and 'R', __three_in_a_row(label) is true exactly
\* when one of the 8 lines has its three cells labelled with that label; the
\* 7 line nodes keep the empty label, so no cell node satisfies the check.
NeighbourCheckIsThreeInARow ==
    /\ \A lbl \in {"C", "R"} : three_in_a_row(lbl, graph) <=> HasLine(lbl, graph)
    /\ \A l \in Lines : graph[l] = " "
    /\ \A lbl \in {"C", "R"} : \A v \in Cells : \E w \in Adj(v) : graph[w] # lbl

\* The robber holds the second diagonal and the check reports it.
NeighbourCheckIsThreeInARowWitness ==
    /\ \A i \in 0..2 : graph[Cell(i, 2 - i)] = "R"
    /\ three_in_a_row("R", graph)
    /\ ~three_in_a_row("C", graph)

\* C15: in a continuing game, a valid robber move that completes a line of
\* three 'R' ends the game with (-1, 'Robber escapes'); a robber ply never
\* sets the tie status.
RobberLineEscapes ==
    [][(round' = round + 1 /\ stepped' = "robber")
       => /\ (result = 0 /\ ValidCall(lastCall') /\ HasLine("R", graph'))
               => (result' = -1 /\ status' = "Robber escapes")
          /\ status' = "Cops shift ends" => status = "Cops shift ends"]_vars

\* The robber has just completed a line in a game that was continuing.
RobberLineEscapesWitness ==
    /\ stepped = "robber" /\ extra = 0 /\ InRange(lastCall)
    /\ HasLine("R", graph) /\ graph[CellOf(lastCall)] = "R"
    /\ result = -1 /\ status = "Robber escapes"

\* C16: the status becomes 'Cops shift ends' only in a cops ply whose valid
\* move leaves all 9 cells non-empty, which is the call that brings the
\* round counter to 8; it never appears in a robber ply.
TieOnlyAfterCopsFill ==
    [][(status # "Cops shift ends" /\ status' = "Cops shift ends")
       => /\ round' = 8
          /\ stepped' = "cops"
          /\ ValidCall(lastCall')
          /\ BoardFull(graph')]_vars

\* The tie has just been declared by the ninth call.
TieOnlyAfterCopsFillWitness ==
    /\ status = "Cops shift ends" /\ round = 8 /\ stepped = "cops"
    /\ extra = 0 /\ InRange(lastCall) /\ BoardFull(graph)

\* C17: result is 0 exactly with 'Game continues', -1 exactly with the four
\* statuses of a robber win and 1 exactly with the three statuses of a cops
\* win.
ResultMatchesStatus ==
    /\ result = 0 <=> status = "Game continues"
    /\ result = -1 <=>
         status \in {"Cops invalid step", "Exception in cops call",
                     "Robber escapes", "Cops shift ends"}
    /\ result = 1 <=>
         status \in {"Robber invalid step", "Exception in robber call",
                     "Robber caught"}

\* A game the cops won on which a later cops ply would have been a loss.
ResultMatchesStatusWitness ==
    /\ result = 1 /\ status = "Robber invalid step"
    /\ extra >= 1 /\ stepped = "cops" /\ lastCall.kind \in {"raise", "None"}

\* C18: under the driver loop, with engine calls that return, the result
\* becomes non-zero, and it is non-zero once 9 calls have been made (round
\* counter 8), so the loop stops.
DriverStops ==
    /\ <>(result # 0)
    /\ [](result = 0 => round < 8)

\* The loop needed all nine calls: the game ended in the tie.
DriverStopsWitness ==
    /\ round = 8 /\ result = -1 /\ status = "Cops shift ends"
    /\ NumLabelled("C") = 5 /\ NumLabelled("R") = 4

\* C19: between calls, a game with result 0 has no line of three 'C' or
\* three 'R', has an empty cell, and has as many labelled cells as the round
\* counter plus one.
ContinuingGameIsUndecided ==
    result = 0
    => /\ ~HasLine("C", graph)
       /\ ~HasLine("R", graph)
       /\ ~BoardFull(graph)
       /\ NumLabelled("C") + NumLabelled("R") = round + 1

\* Eight valid plies without a line: the game still continues.
ContinuingGameIsUndecidedWitness ==
    /\ result = 0 /\ round = 7
    /\ NumLabelled("C") = 4 /\ NumLabelled("R") = 4

\* C20: the status 'Robber caught' comes with a line of three 'C', 'Robber
\* escapes' with a line of three 'R', and 'Cops shift ends' with 9 non-empty
\* cells.
LineStatusBackedByBoard ==
    /\ status = "Robber caught" => HasLine("C", graph)
    /\ status = "Robber escapes" => HasLine("R", graph)
    /\ status = "Cops shift ends" => BoardFull(graph)

\* The cops were caught out by a line of the robber after six plies.
LineStatusBackedByBoardWitness ==
    /\ status = "Robber escapes" /\ HasLine("R", graph) /\ round = 5
    /\ ~HasLine("C", graph)

====
